---- MODULE Spec2Model ----
(***************************************************************************)
(* Model of the graph-mode chat request of langchain_service:              *)
(* LangGraphRAGService.chat and the LangGraph workflow it runs             *)
(* (retrieve -> grade_documents -> {search_web | generate} -> ...), with   *)
(* the in-memory conversation store the request appends to.                *)
(*                                                                         *)
(* A Source is abstracted to its note_id: positive for notes of the vector *)
(* store, negative for web results.  Collaborators (vector store, graders, *)
(* LLM, web search tool) are nondeterministic: each call returns one of    *)
(* its possible results or raises.                                         *)
(*                                                                         *)
(* Spec follows one chat request from a store that is empty or holds an    *)
(* earlier exchange: chat contains no await, so graph-mode requests do not *)
(* interleave.  trace and routes record the first MaxTrace node executions *)
(* of the run and then stop growing, while the run itself goes on.         *)
(***************************************************************************)
EXTENDS Integers, Sequences, FiniteSets, TLC

(* ---------------------------- bounds ---------------------------------- *)
MaxNotes == 3        \* notes a retrieval returns (at most max_context_notes)
MaxDocuments == 5    \* length of state["documents"] explored
MaxTrace == 7        \* node executions of one run that are recorded
MaxRequests == 2     \* traditional-mode chat requests, possibly concurrent
DistanceScale == 20  \* a raw distance n stands for n / DistanceScale
MaxDistance == 50    \* largest raw distance explored, in that unit
MaxHits == 2         \* results of one vector store query that are scored
MaxServed == 3       \* operations of a configured service that are followed

(* ------------------------ program constants --------------------------- *)
max_context_notes == 5
conversation_window == 10
tavily_k == 3
snippet_limit == 200
marker_length == 3

(* ---------------------------- domains --------------------------------- *)
None == "None"
\* the empty string, which a caller can send as conversation id
EmptyId == ""
ConvIds == {"c1", "c2"}
\* ChatRequest.message is an unconstrained str: the empty string is one
EmptyMessage == ""
Messages == {"q1", EmptyMessage}
Generations == {"a1", "a2"}
NoteIds == 1..MaxNotes
NoGeneration == "no generation"
NoResponse == [response |-> None, conversation_id |-> None, sources |-> <<>>]

\* the vector store's ranking of the notes for the question, best first
\* (distinct note ids, not in id order)
Ranking == [i \in 1..MaxNotes |-> (i % MaxNotes) + 1]

\* results of search_similar_notes(query, n_results = max_context_notes):
\* the best n notes, for every number n of notes the store may hold
RetrievedDocuments ==
  {SubSeq(Ranking, 1, n) :
     n \in 0..(IF MaxNotes < max_context_notes THEN MaxNotes
               ELSE max_context_notes)}

\* stores a request may find: empty, or holding an earlier exchange
EarlierExchange ==
  <<[role |-> "user", content |-> "q0", sources |-> <<>>],
    [role |-> "assistant", content |-> "a0", sources |-> <<2>>]>>
InitialStores == {<<>>, "c1" :> [messages |-> EarlierExchange]}

\* traditional mode: request numbers; the user message of request r and the
\* model's reply to it are both written r, earlier requests count down from 0
Requests == 1..MaxRequests
IdleRequest ==
  [pc |-> "idle", conv_id |-> None, sources |-> <<>>, llm_messages |-> <<>>]
NoOp == [name |-> None, id |-> None, given |-> None, result |-> <<>>]

\* results of search_similar_notes kept by the relevance filter
TraditionalSources == {<<>>, Ranking}

\* a conversation two messages short of the retention bound, left by earlier
\* requests that all succeeded
PrefilledAppends == 2 * conversation_window - 2
PrefilledMessages ==
  [i \in 1..PrefilledAppends |->
     [role |-> IF i % 2 = 1 THEN "user" ELSE "assistant",
      content |-> ((i + 1) \div 2) - conversation_window,
      sources |-> <<>>]]
StoreInitialStores == {<<>>, "c1" :> [messages |-> PrefilledMessages]}

\* nothing scored yet
NoScores == [of |-> None, inputs |-> <<>>, relevance_scores |-> <<>>,
             texts |-> <<>>, content_snippets |-> <<>>]

\* raw distances of one query, as ChromaDB returns them: nearest first;
\* the metric of an existing collection decides the range, and an inner
\* product metric yields distances below zero
Distances == (0 - DistanceScale \div 4)..MaxDistance
RankedDistances ==
  {ds \in UNION {[1..n -> Distances] : n \in 0..MaxHits} :
     \A i, j \in DOMAIN ds : i < j => ds[i] <= ds[j]}

\* what a web result carries under "score": nothing, something that is not
\* a number, or a number (here a multiple of 1/2 from -1/2 to 3/2)
ProviderScores ==
  {[kind |-> k, value |-> <<0, 1>>] : k \in {"absent", "text"}}
    \cup {[kind |-> "number", value |-> <<v, 2>>] : v \in -1..3}

\* a text is modelled by its number of characters: the stored document of
\* a note, or the "content" of a web result (0 when it carries none)
TextLengths == {0, snippet_limit, snippet_limit + 1}

\* RAGService(vector_store_service, use_langgraph): the argument, if given
Arguments == {None, "True", "False"}
\* the value of USE_LANGGRAPH in the environment, None when it is not set
EnvValues == {None, "true", "True", "1", "yes", "false", "on"}
\* how the initialisation of graph mode ends: it succeeds, its imports
\* fail, or it fails otherwise (no OPENAI_API_KEY, ...)
GraphInitOutcomes == {"ok", "ImportError", "error"}
Operations == {"chat", "history", "clear", "stats"}

\* a service not constructed yet
NewService ==
  [stage |-> "new", arg |-> None, env |-> None, requested |-> FALSE,
   use_langgraph |-> FALSE, langgraph_service |-> FALSE, llm |-> FALSE,
   import_outcome |-> None, served |-> <<>>]
\* the service in graph mode, as main.py starts it with USE_LANGGRAPH=true
GraphService ==
  [NewService EXCEPT !.stage = "initialized", !.env = "true",
                     !.requested = TRUE, !.use_langgraph = TRUE,
                     !.langgraph_service = TRUE, !.import_outcome = "ok"]
\* the service in traditional mode, as main.py starts it by default
TraditionalService ==
  [NewService EXCEPT !.stage = "initialized", !.llm = TRUE]

GraderScores == {"yes", "no", "unsure"}
GraderOutcomes == GraderScores \cup {"raise"}

VARIABLES
  conversations,    \* self.conversations of the service that serves chat:
                    \* conversation id -> [messages]
  web_search_tool,  \* self.web_search_tool is set (TAVILY_API_KEY present)
  pc,               \* position of the chat request / next graph node
  conv_id,          \* conv_id of the running request
  question,         \* state["question"]
  generation,       \* state["generation"]
  web_search,       \* state["web_search"]
  documents,        \* state["documents"]
  response,         \* ChatResponse returned by the request
  trace,            \* nodes executed by the request, in order
  retrieved,        \* what the retrieve node put into state["documents"]
  retrieve_outcome, \* how the vector store call of the run ended
  calls,            \* grader invocations made by the latest step
  route,            \* value the latest _decide_to_regenerate returned
  routes,           \* values _decide_to_regenerate returned, in order
  rag_chain_input,  \* documents handed to rag_chain by the latest generate
  raised,           \* collaborator whose call raised in the latest graph step
  reqs,             \* traditional mode: the chat requests, by request number
  log,              \* per conversation, every message appended since it was
                    \* created, in order
  op,               \* the latest store operation and what it returned
  scored,           \* the latest scoring of search results: what the
                    \* collaborator returned and the relevance scores
  service           \* the RAGService: how it was configured, its mode and
                    \* the store each of its operations was routed to

vars == <<conversations, web_search_tool, pc, conv_id, question, generation,
          web_search, documents, response, trace, retrieved,
          retrieve_outcome, calls, route, routes, rag_chain_input, raised,
          reqs, log, op, scored, service>>

\* state of the traditional-mode requests and of the store operations
store_vars == <<reqs, log, op>>

\* state of the graph-mode request
graph_vars == <<web_search_tool, pc, conv_id, question, generation,
                web_search, documents, response, trace, retrieved,
                retrieve_outcome, calls, route, routes, rag_chain_input,
                raised>>

\* state of the relevance scoring
score_vars == <<scored>>

\* state of the mode configuration
mode_vars == <<service>>

(* ------------------------- session store ------------------------------ *)
LastN(s, n) == IF Len(s) <= n THEN s ELSE SubSeq(s, Len(s) - n + 1, Len(s))

ConversationMessage(role, content, sources) ==
  [role |-> role, content |-> content, sources |-> sources]

\* _get_or_create_conversation without the creation
get_or_create_conversation_never_creates(convs, id) == convs

\* _get_or_create_conversation assigning a new conversation without the
\* membership test
get_or_create_conversation_replaces(convs, id) ==
  [k \in DOMAIN convs \cup {id} |->
     IF k = id THEN [messages |-> <<>>] ELSE convs[k]]

get_or_create_conversation(convs, id) ==
  IF id \notin DOMAIN convs
  THEN convs @@ (id :> [messages |-> <<>>])
  ELSE convs

\* _add_message_to_conversation keeping conversation_window messages
add_message_to_conversation_window(convs, id, role, content, sources) ==
  IF id \in DOMAIN convs
  THEN LET appended == Append(convs[id].messages,
                              ConversationMessage(role, content, sources))
       IN [convs EXCEPT ![id].messages =
             IF Len(appended) > conversation_window * 2
             THEN LastN(appended, conversation_window)
             ELSE appended]
  ELSE convs

\* _add_message_to_conversation keeping the oldest messages
add_message_to_conversation_oldest(convs, id, role, content, sources) ==
  IF id \in DOMAIN convs
  THEN LET appended == Append(convs[id].messages,
                              ConversationMessage(role, content, sources))
       IN [convs EXCEPT ![id].messages =
             IF Len(appended) > conversation_window * 2
             THEN SubSeq(appended, 1, conversation_window * 2)
             ELSE appended]
  ELSE convs

\* _add_message_to_conversation creating the conversation of an unknown id
add_message_to_conversation_creates(convs, id, role, content, sources) ==
  LET known == IF id \in DOMAIN convs THEN convs
               ELSE convs @@ (id :> [messages |-> <<>>])
      appended == Append(known[id].messages,
                         ConversationMessage(role, content, sources))
  IN [known EXCEPT ![id].messages =
        IF Len(appended) > conversation_window * 2
        THEN LastN(appended, conversation_window * 2)
        ELSE appended]

\* _add_message_to_conversation keeping one message less than twice the
\* window
add_message_to_conversation_one_less(convs, id, role, content, sources) ==
  IF id \in DOMAIN convs
  THEN LET appended == Append(convs[id].messages,
                              ConversationMessage(role, content, sources))
       IN [convs EXCEPT ![id].messages =
             IF Len(appended) > conversation_window * 2 - 1
             THEN LastN(appended, conversation_window * 2 - 1)
             ELSE appended]
  ELSE convs

add_message_to_conversation(convs, id, role, content, sources) ==
  IF id \in DOMAIN convs
  THEN LET appended == Append(convs[id].messages,
                              ConversationMessage(role, content, sources))
       IN [convs EXCEPT ![id].messages =
             IF Len(appended) > conversation_window * 2
             THEN LastN(appended, conversation_window * 2)
             ELSE appended]
  ELSE convs

(* --------------------------- graph nodes ------------------------------ *)
Record(node) == IF Len(trace) < MaxTrace THEN Append(trace, node) ELSE trace

\* grade_loop leaving the loop at the first document graded not relevant
\* (break where the code has continue)
RECURSIVE grade_loop_break(_, _, _, _, _, _)
grade_loop_break(docs, scores, i, filtered_docs, search, invoked) ==
  IF i > Len(docs)
  THEN [documents |-> filtered_docs, web_search |-> search,
        calls |-> invoked, raised |-> FALSE]
  ELSE LET called == Append(invoked, [grader |-> "retrieval_grader",
                                      document |-> docs[i],
                                      score |-> scores[i]])
       IN IF scores[i] = "raise"
          THEN [documents |-> filtered_docs, web_search |-> search,
                calls |-> called, raised |-> TRUE]
          ELSE IF scores[i] = "yes"
          THEN grade_loop_break(docs, scores, i + 1,
                                Append(filtered_docs, docs[i]), search, called)
          ELSE [documents |-> filtered_docs, web_search |-> "Yes",
                calls |-> called, raised |-> FALSE]

\* the for loop of _grade_documents over documents[i..], one grader call each
RECURSIVE grade_loop(_, _, _, _, _, _)
grade_loop(docs, scores, i, filtered_docs, search, invoked) ==
  IF i > Len(docs)
  THEN [documents |-> filtered_docs, web_search |-> search,
        calls |-> invoked, raised |-> FALSE]
  ELSE LET called == Append(invoked, [grader |-> "retrieval_grader",
                                      document |-> docs[i],
                                      score |-> scores[i]])
       IN IF scores[i] = "raise"
          THEN [documents |-> filtered_docs, web_search |-> search,
                calls |-> called, raised |-> TRUE]
          ELSE IF scores[i] = "yes"
          THEN grade_loop(docs, scores, i + 1, Append(filtered_docs, docs[i]),
                          search, called)
          ELSE grade_loop(docs, scores, i + 1, filtered_docs, "Yes", called)

\* decide_to_generate searching the web whatever the flag
decide_to_generate_always_searches(search) == "search_web"

\* decide_to_generate comparing the flag with the wrong spelling
decide_to_generate_lowercase(search) ==
  IF search = "yes" THEN "search_web" ELSE "generate"

decide_to_generate(search) ==
  IF search = "Yes" THEN "search_web" ELSE "generate"

\* _decide_to_regenerate asking the answer grader before the hallucination
\* grader
decide_to_regenerate_useful_first(grounded, useful) ==
  LET first == <<[grader |-> "answer_grader", score |-> useful]>>
      both == Append(first, [grader |-> "hallucination_grader",
                             score |-> grounded])
  IN IF useful = "raise" THEN [route |-> "raise", calls |-> first]
     ELSE IF useful = "yes"
     THEN IF grounded = "raise" THEN [route |-> "raise", calls |-> both]
          ELSE IF grounded = "yes" THEN [route |-> "useful", calls |-> both]
          ELSE [route |-> "not grounded", calls |-> both]
     ELSE [route |-> "not useful", calls |-> first]

\* _decide_to_regenerate taking every grade but "no" for a "yes"
decide_to_regenerate_unless_no(grounded, useful) ==
  LET first == <<[grader |-> "hallucination_grader", score |-> grounded]>>
      both == Append(first, [grader |-> "answer_grader", score |-> useful])
  IN IF grounded = "raise" THEN [route |-> "raise", calls |-> first]
     ELSE IF grounded # "no"
     THEN IF useful = "raise" THEN [route |-> "raise", calls |-> both]
          ELSE IF useful # "no" THEN [route |-> "useful", calls |-> both]
          ELSE [route |-> "not useful", calls |-> both]
     ELSE [route |-> "not grounded", calls |-> first]

\* _decide_to_regenerate given what hallucination_grader and answer_grader
\* would return: the value returned and the grader calls made
decide_to_regenerate(grounded, useful) ==
  LET first == <<[grader |-> "hallucination_grader", score |-> grounded]>>
      both == Append(first, [grader |-> "answer_grader", score |-> useful])
  IN IF grounded = "raise" THEN [route |-> "raise", calls |-> first]
     ELSE IF grounded = "yes"
     THEN IF useful = "raise" THEN [route |-> "raise", calls |-> both]
          ELSE IF useful = "yes" THEN [route |-> "useful", calls |-> both]
          ELSE [route |-> "not useful", calls |-> both]
     ELSE [route |-> "not grounded", calls |-> first]

\* edge mappings with one target wrong
regenerate_edges_not_useful_ends(r) ==
  CASE r = "useful" -> "END"
    [] r = "not useful" -> "END"
    [] r = "not grounded" -> "generate"

regenerate_edges_not_grounded_searches(r) ==
  CASE r = "useful" -> "END"
    [] r = "not useful" -> "search_web"
    [] r = "not grounded" -> "search_web"

regenerate_edges_not_useful_regenerates(r) ==
  CASE r = "useful" -> "END"
    [] r = "not useful" -> "generate"
    [] r = "not grounded" -> "generate"

regenerate_edges_not_grounded_regrades(r) ==
  CASE r = "useful" -> "END"
    [] r = "not useful" -> "search_web"
    [] r = "not grounded" -> "grade_documents"

\* the mapping of add_conditional_edges("generate", ...)
regenerate_edges(r) ==
  CASE r = "useful" -> "END"
    [] r = "not useful" -> "search_web"
    [] r = "not grounded" -> "generate"

\* web results numbered by their index alone
web_sources_index(n) == [i \in 1..n |-> i - 1]

\* web results become Sources with note_id -1 - i, i = 0..n-1
web_sources(n) == [i \in 1..n |-> -1 - (i - 1)]

(* ----------------------------- Init ------------------------------------ *)
Init ==
  /\ conversations \in InitialStores
  /\ web_search_tool \in BOOLEAN
  /\ pc = "idle"
  /\ conv_id = None
  /\ question = None
  /\ generation = NoGeneration
  /\ web_search = None
  /\ documents = <<>>
  /\ response = NoResponse
  /\ trace = <<>>
  /\ retrieved = <<>>
  /\ retrieve_outcome = None
  /\ calls = <<>>
  /\ route = None
  /\ routes = <<>>
  /\ rag_chain_input = <<>>
  /\ raised = None
  /\ reqs = [r \in Requests |-> IdleRequest]
  /\ log = [id \in ConvIds |-> <<>>]
  /\ op = NoOp
  /\ scored = NoScores
  /\ service = GraphService

(* ---------------------------- actions --------------------------------- *)
\* chat, up to graph.invoke: get or create the conversation, append the
\* user message, start the graph with {"question": message}
Chat ==
  /\ pc = "idle"
  /\ \E message \in Messages, conversation_id \in ConvIds \cup {None, EmptyId} :
       \E id \in IF conversation_id \in {None, EmptyId} \* not conversation_id
                 THEN ConvIds \ DOMAIN conversations   \* str(uuid.uuid4())
                 ELSE {conversation_id} :
         /\ conv_id' = id
         /\ conversations' =
              add_message_to_conversation(
                get_or_create_conversation(conversations, id),
                id, "user", message, <<>>)
         /\ question' = message
  /\ pc' = "retrieve"
  /\ UNCHANGED <<web_search_tool, generation, web_search, documents, response,
                 trace, retrieved, retrieve_outcome, calls, route,
                 routes, rag_chain_input>>
  /\ UNCHANGED raised
  /\ UNCHANGED store_vars
  /\ UNCHANGED score_vars
  /\ UNCHANGED mode_vars

\* _retrieve without the except branch: an error of the search fails the run
Retrieve_uncaught ==
  /\ pc = "retrieve"
  /\ trace' = Record("retrieve")
  /\ \/ \E docs \in RetrievedDocuments :
          /\ retrieve_outcome' = "ok"
          /\ documents' = docs
          /\ retrieved' = docs
          /\ pc' = "grade_documents"
     \/ /\ retrieve_outcome' = "error"
        /\ pc' = "failed"
        /\ UNCHANGED <<documents, retrieved>>
     \/ /\ retrieve_outcome' = "timeout"
        /\ pc' = "retrieve_shutdown"
        /\ UNCHANGED <<documents, retrieved>>
  /\ UNCHANGED <<conversations, web_search_tool, conv_id, question, generation,
                 web_search, response, calls, route, routes,
                 rag_chain_input>>
  /\ UNCHANGED raised
  /\ UNCHANGED store_vars
  /\ UNCHANGED score_vars
  /\ UNCHANGED mode_vars

\* _retrieve: the search returns in time, raises, or future.result times out
Retrieve ==
  /\ pc = "retrieve"
  /\ trace' = Record("retrieve")
  /\ \/ \E docs \in RetrievedDocuments :
          /\ retrieve_outcome' = "ok"
          /\ documents' = docs
          /\ retrieved' = docs
          /\ pc' = "grade_documents"
     \/ /\ retrieve_outcome' = "error"
        /\ documents' = <<>>
        /\ retrieved' = <<>>
        /\ pc' = "grade_documents"
     \/ /\ retrieve_outcome' = "timeout"
        /\ pc' = "retrieve_shutdown"
        /\ UNCHANGED <<documents, retrieved>>
  /\ UNCHANGED <<conversations, web_search_tool, conv_id, question, generation,
                 web_search, response, calls, route, routes,
                 rag_chain_input>>
  /\ UNCHANGED raised
  /\ UNCHANGED store_vars
  /\ UNCHANGED score_vars
  /\ UNCHANGED mode_vars

\* _retrieve after a timeout: leaving the with block waits for the worker
\* thread; whatever the search produced late is dropped by the except branch
RetrieveShutdown ==
  /\ pc = "retrieve_shutdown"
  /\ documents' = <<>>
  /\ retrieved' = <<>>
  /\ pc' = "grade_documents"
  /\ UNCHANGED <<conversations, web_search_tool, conv_id, question, generation,
                 web_search, response, trace, retrieve_outcome, calls, route,
                 routes, rag_chain_input>>
  /\ UNCHANGED raised
  /\ UNCHANGED store_vars
  /\ UNCHANGED score_vars
  /\ UNCHANGED mode_vars

\* _grade_documents followed by the conditional edge _decide_to_generate
GradeDocuments ==
  /\ pc = "grade_documents"
  /\ trace' = Record("grade_documents")
  /\ \E scores \in [1..Len(documents) -> GraderOutcomes] :
       LET r == grade_loop(documents, scores, 1, <<>>, "No", <<>>)
       IN /\ calls' = r.calls
          /\ raised' = IF r.raised THEN "retrieval_grader" ELSE None
          /\ IF r.raised
             THEN /\ pc' = "failed"
                  /\ UNCHANGED <<documents, web_search>>
             ELSE /\ documents' = r.documents
                  /\ web_search' = r.web_search
                  /\ pc' = decide_to_generate(r.web_search)
  /\ UNCHANGED <<conversations, web_search_tool, conv_id, question, generation,
                 response, retrieved, retrieve_outcome, route, routes,
                 rag_chain_input>>
  /\ UNCHANGED store_vars
  /\ UNCHANGED score_vars
  /\ UNCHANGED mode_vars

\* _web_search invoking the tool without testing that it is set
SearchWeb_unguarded ==
  /\ pc = "search_web"
  /\ trace' = Record("search_web")
  /\ calls' = <<>>
  /\ IF web_search_tool
     THEN \/ \E n \in 0..tavily_k :
               /\ Len(documents) + n <= MaxDocuments
               /\ documents' = documents \o web_sources(n)
               /\ pc' = "generate"
               /\ raised' = None
          \/ /\ pc' = "failed"
             /\ raised' = "web_search_tool"
             /\ UNCHANGED documents
     ELSE /\ pc' = "failed"
          /\ raised' = "web_search_tool"
          /\ UNCHANGED documents
  /\ UNCHANGED <<conversations, web_search_tool, conv_id, question, generation,
                 web_search, response, retrieved, retrieve_outcome, route,
                 routes, rag_chain_input>>
  /\ UNCHANGED store_vars
  /\ UNCHANGED score_vars
  /\ UNCHANGED mode_vars

\* _web_search returning only the web results
SearchWeb_replaces ==
  /\ pc = "search_web"
  /\ trace' = Record("search_web")
  /\ calls' = <<>>
  /\ IF web_search_tool
     THEN \/ \E n \in 0..tavily_k :
               /\ Len(documents) + n <= MaxDocuments
               /\ documents' = web_sources(n)
               /\ pc' = "generate"
               /\ raised' = None
          \/ /\ pc' = "failed"
             /\ raised' = "web_search_tool"
             /\ UNCHANGED documents
     ELSE /\ documents' = documents
          /\ pc' = "generate"
          /\ raised' = None
  /\ UNCHANGED <<conversations, web_search_tool, conv_id, question, generation,
                 web_search, response, retrieved, retrieve_outcome, route,
                 routes, rag_chain_input>>
  /\ UNCHANGED store_vars
  /\ UNCHANGED score_vars
  /\ UNCHANGED mode_vars

\* _web_search, then the edge search_web -> generate
SearchWeb ==
  /\ pc = "search_web"
  /\ trace' = Record("search_web")
  /\ calls' = <<>>
  /\ IF web_search_tool
     THEN \/ \E n \in 0..tavily_k :
               /\ Len(documents) + n <= MaxDocuments
               /\ documents' = documents \o web_sources(n)
               /\ pc' = "generate"
               /\ raised' = None
          \/ /\ pc' = "failed"
             /\ raised' = "web_search_tool"
             /\ UNCHANGED documents
     ELSE /\ documents' = documents
          /\ pc' = "generate"
          /\ raised' = None
  /\ UNCHANGED <<conversations, web_search_tool, conv_id, question, generation,
                 web_search, response, retrieved, retrieve_outcome, route,
                 routes, rag_chain_input>>
  /\ UNCHANGED store_vars
  /\ UNCHANGED score_vars
  /\ UNCHANGED mode_vars

\* _generate catching the error of rag_chain and going on without a generation
Generate_swallows ==
  /\ pc = "generate"
  /\ trace' = Record("generate")
  /\ rag_chain_input' = documents
  /\ calls' = <<>>
  /\ route' = None
  /\ \/ \E g \in Generations :
          /\ generation' = g
          /\ pc' = "decide_to_regenerate"
          /\ raised' = None
     \/ /\ pc' = "decide_to_regenerate"
        /\ raised' = "rag_chain"
        /\ UNCHANGED generation
  /\ UNCHANGED <<conversations, web_search_tool, conv_id, question, web_search,
                 documents, response, retrieved, retrieve_outcome, routes>>
  /\ UNCHANGED store_vars
  /\ UNCHANGED score_vars
  /\ UNCHANGED mode_vars

\* _generate handing rag_chain the conversation's messages along with the
\* documents
Generate_with_history ==
  /\ pc = "generate"
  /\ trace' = Record("generate")
  /\ rag_chain_input' =
       documents \o [i \in 1..Len(conversations[conv_id].messages) |-> 0]
  /\ calls' = <<>>
  /\ route' = None
  /\ \/ \E g \in Generations :
          /\ generation' = g
          /\ pc' = "decide_to_regenerate"
          /\ raised' = None
     \/ /\ pc' = "failed"
        /\ raised' = "rag_chain"
        /\ UNCHANGED generation
  /\ UNCHANGED <<conversations, web_search_tool, conv_id, question, web_search,
                 documents, response, retrieved, retrieve_outcome, routes>>
  /\ UNCHANGED store_vars
  /\ UNCHANGED score_vars
  /\ UNCHANGED mode_vars

\* _generate: rag_chain answers from the current documents, or raises
Generate ==
  /\ pc = "generate"
  /\ trace' = Record("generate")
  /\ rag_chain_input' = documents
  /\ calls' = <<>>
  /\ route' = None
  /\ \/ \E g \in Generations :
          /\ generation' = g
          /\ pc' = "decide_to_regenerate"
          /\ raised' = None
     \/ /\ pc' = "failed"
        /\ raised' = "rag_chain"
        /\ UNCHANGED generation
  /\ UNCHANGED <<conversations, web_search_tool, conv_id, question, web_search,
                 documents, response, retrieved, retrieve_outcome, routes>>
  /\ UNCHANGED store_vars
  /\ UNCHANGED score_vars
  /\ UNCHANGED mode_vars

\* the conditional edge after generate taking any of its targets whatever
\* _decide_to_regenerate returned
DecideToRegenerate_any_target ==
  /\ pc = "decide_to_regenerate"
  /\ \E grounded \in GraderOutcomes, useful \in GraderOutcomes :
       LET r == decide_to_regenerate(grounded, useful)
       IN /\ calls' = r.calls
          /\ route' = r.route
          /\ routes' = IF r.route # "raise" /\ Len(trace) < MaxTrace
                       THEN Append(routes, r.route) ELSE routes
          /\ IF r.route = "raise" THEN pc' = "failed"
             ELSE pc' \in {"END", "search_web", "generate"}
          /\ raised' = IF r.route = "raise"
                       THEN r.calls[Len(r.calls)].grader ELSE None
  /\ UNCHANGED <<conversations, web_search_tool, conv_id, question, generation,
                 web_search, documents, response, trace, retrieved,
                 retrieve_outcome, rag_chain_input>>
  /\ UNCHANGED store_vars
  /\ UNCHANGED score_vars
  /\ UNCHANGED mode_vars

\* the conditional edge after generate: _decide_to_regenerate and its mapping
DecideToRegenerate ==
  /\ pc = "decide_to_regenerate"
  /\ \E grounded \in GraderOutcomes, useful \in GraderOutcomes :
       LET r == decide_to_regenerate(grounded, useful)
       IN /\ calls' = r.calls
          /\ route' = r.route
          /\ routes' = IF r.route # "raise" /\ Len(trace) < MaxTrace
                       THEN Append(routes, r.route) ELSE routes
          /\ pc' = IF r.route = "raise" THEN "failed"
                   ELSE regenerate_edges(r.route)
          /\ raised' = IF r.route = "raise"
                       THEN r.calls[Len(r.calls)].grader ELSE None
  /\ UNCHANGED <<conversations, web_search_tool, conv_id, question, generation,
                 web_search, documents, response, trace, retrieved,
                 retrieve_outcome, rag_chain_input>>
  /\ UNCHANGED store_vars
  /\ UNCHANGED score_vars
  /\ UNCHANGED mode_vars

\* chat, after graph.invoke returned: append the assistant message and
\* return the ChatResponse
ChatReturn ==
  /\ pc = "END"
  /\ conversations' =
       add_message_to_conversation(conversations, conv_id, "assistant",
                                   generation, documents)
  /\ response' = [response |-> generation, conversation_id |-> conv_id,
                  sources |-> documents]
  /\ pc' = "returned"
  /\ UNCHANGED <<web_search_tool, conv_id, question, generation, web_search,
                 documents, trace, retrieved, retrieve_outcome, calls, route,
                 routes, rag_chain_input>>
  /\ UNCHANGED raised
  /\ UNCHANGED store_vars
  /\ UNCHANGED score_vars
  /\ UNCHANGED mode_vars

Next ==
  \/ Chat
  \/ Retrieve
  \/ RetrieveShutdown
  \/ GradeDocuments
  \/ SearchWeb
  \/ Generate
  \/ DecideToRegenerate
  \/ ChatReturn

Spec == Init /\ [][Next]_vars

\* the graph runner always executes the next node of a started run
FairSpec == Spec /\ WF_vars(Next)

(* ------------- traditional mode and the store operations -------------- *)
\* _get_conversation_context: messages[-conversation_window:] as
\* HumanMessage / AIMessage
get_conversation_context_oldest(convs, id) ==
  IF id \notin DOMAIN convs
  THEN <<>>
  ELSE LET recent_messages ==
             SubSeq(convs[id].messages, 1,
                    IF Len(convs[id].messages) < conversation_window
                    THEN Len(convs[id].messages) ELSE conversation_window)
       IN [i \in 1..Len(recent_messages) |->
             [type |-> IF recent_messages[i].role = "user" THEN "human"
                       ELSE "ai",
              content |-> recent_messages[i].content]]

\* _get_conversation_context leaving out the newest message, as if the
\* context were read before the request's user message was appended
get_conversation_context_before_append(convs, id) ==
  IF id \notin DOMAIN convs
  THEN <<>>
  ELSE LET earlier == SubSeq(convs[id].messages, 1,
                             Len(convs[id].messages) - 1)
           recent_messages == LastN(earlier, conversation_window)
       IN [i \in 1..Len(recent_messages) |->
             [type |-> IF recent_messages[i].role = "user" THEN "human"
                       ELSE "ai",
              content |-> recent_messages[i].content]]

get_conversation_context(convs, id) ==
  IF id \notin DOMAIN convs
  THEN <<>>
  ELSE LET recent_messages == LastN(convs[id].messages, conversation_window)
       IN [i \in 1..Len(recent_messages) |->
             [type |-> IF recent_messages[i].role = "user" THEN "human"
                       ELSE "ai",
              content |-> recent_messages[i].content]]

get_conversation_history(convs, id) ==
  IF id \in DOMAIN convs THEN convs[id].messages ELSE <<>>

\* clear_conversation emptying the messages instead of deleting the entry
clear_conversation_keeps_entry(convs, id) ==
  IF id \in DOMAIN convs
  THEN [convs EXCEPT ![id].messages = <<>>]
  ELSE convs

\* clear_conversation resetting the whole store
clear_conversation_all(convs, id) ==
  IF id \in DOMAIN convs THEN <<>> ELSE convs

clear_conversation(convs, id) ==
  IF id \in DOMAIN convs
  THEN [k \in DOMAIN convs \ {id} |-> convs[k]]
  ELSE convs

\* get_service_stats: the counts taken from the store and the two limits
RECURSIVE total_messages(_)
total_messages(convs) ==
  IF DOMAIN convs = {}
  THEN 0
  ELSE LET id == CHOOSE k \in DOMAIN convs : TRUE
       IN Len(convs[id].messages) +
          total_messages([k \in DOMAIN convs \ {id} |-> convs[k]])

\* get_service_stats reporting the number of conversations as total_messages
get_service_stats_counts_conversations(convs) ==
  [total_conversations |-> Cardinality(DOMAIN convs),
   total_messages |-> Cardinality(DOMAIN convs),
   max_context_notes |-> max_context_notes,
   conversation_window |-> conversation_window]

get_service_stats(convs) ==
  [total_conversations |-> Cardinality(DOMAIN convs),
   total_messages |-> total_messages(convs),
   max_context_notes |-> max_context_notes,
   conversation_window |-> conversation_window]

StoreIdle ==
  /\ conversations \in StoreInitialStores
  /\ log = [id \in ConvIds |->
             IF id \in DOMAIN conversations THEN conversations[id].messages
             ELSE <<>>]
  /\ reqs = [r \in Requests |-> IdleRequest]
  /\ op = NoOp
  /\ scored = NoScores
  /\ web_search_tool = FALSE
  /\ pc = "idle"
  /\ conv_id = None
  /\ question = None
  /\ generation = NoGeneration
  /\ web_search = None
  /\ documents = <<>>
  /\ response = NoResponse
  /\ trace = <<>>
  /\ retrieved = <<>>
  /\ retrieve_outcome = None
  /\ calls = <<>>
  /\ route = None
  /\ routes = <<>>
  /\ rag_chain_input = <<>>
  /\ raised = None

StoreInit == StoreIdle /\ service = TraditionalService

\* _traditional_chat up to the await of llm.ainvoke: get or create the
\* conversation, append the user message, search the notes (the coroutine
\* never suspends), read the context and build the messages for the model
TraditionalChat(r) ==
  /\ reqs[r].pc = "idle"
  /\ \E conversation_id \in ConvIds \cup {None, EmptyId} :
       \E id \in IF conversation_id \in {None, EmptyId} \* not conversation_id
                 THEN ConvIds \ DOMAIN conversations   \* str(uuid.uuid4())
                 ELSE {conversation_id} :
         LET stored == add_message_to_conversation(
                         get_or_create_conversation(conversations, id),
                         id, "user", r, <<>>)
         IN /\ conversations' = stored
            /\ log' = [log EXCEPT ![id] =
                         Append(IF id \in DOMAIN conversations THEN @
                                ELSE <<>>,
                                ConversationMessage("user", r, <<>>))]
            /\ op' = [name |-> "chat", id |-> id, given |-> conversation_id,
                      result |-> <<>>]
            /\ \/ \E sources \in TraditionalSources :
                    reqs' = [reqs EXCEPT ![r] =
                      [pc |-> "awaiting_llm", conv_id |-> id,
                       sources |-> sources,
                       llm_messages |->
                         Append(get_conversation_context(stored, id),
                                [type |-> "human", content |-> r])]]
               \/ reqs' = [reqs EXCEPT ![r] =   \* the search raises
                      [pc |-> "failed", conv_id |-> id, sources |-> <<>>,
                       llm_messages |-> <<>>]]
  /\ UNCHANGED graph_vars
  /\ UNCHANGED score_vars
  /\ UNCHANGED mode_vars

\* _traditional_chat from the await of llm.ainvoke on: the model answers and
\* the assistant message is appended, or the call raises, or the request is
\* cancelled while it waits
TraditionalChatResume(r) ==
  /\ reqs[r].pc = "awaiting_llm"
  /\ \/ /\ conversations' =
             add_message_to_conversation(conversations, reqs[r].conv_id,
                                         "assistant", r, reqs[r].sources)
        /\ log' = IF reqs[r].conv_id \in DOMAIN conversations
                  THEN [log EXCEPT ![reqs[r].conv_id] =
                          Append(@, ConversationMessage("assistant", r,
                                                        reqs[r].sources))]
                  ELSE log
        /\ reqs' = [reqs EXCEPT ![r].pc = "returned"]
        /\ op' = [name |-> "chat_return", id |-> reqs[r].conv_id,
                  given |-> None, result |-> <<>>]
     \/ /\ reqs' = [reqs EXCEPT ![r].pc = "failed"]
        /\ op' = [name |-> "chat_failed", id |-> reqs[r].conv_id,
                  given |-> None, result |-> <<>>]
        /\ UNCHANGED <<conversations, log>>
     \/ /\ reqs' = [reqs EXCEPT ![r].pc = "cancelled"]
        /\ op' = [name |-> "chat_cancelled", id |-> reqs[r].conv_id,
                  given |-> None, result |-> <<>>]
        /\ UNCHANGED <<conversations, log>>
  /\ UNCHANGED graph_vars
  /\ UNCHANGED score_vars
  /\ UNCHANGED mode_vars

\* RAGService.clear_conversation
ClearConversation(id) ==
  /\ conversations' = clear_conversation(conversations, id)
  /\ log' = [log EXCEPT ![id] = <<>>]
  /\ op' = [name |-> "clear", id |-> id, given |-> None, result |-> <<>>]
  /\ UNCHANGED reqs
  /\ UNCHANGED graph_vars
  /\ UNCHANGED score_vars
  /\ UNCHANGED mode_vars

\* RAGService.get_conversation_history
GetConversationHistory(id) ==
  /\ op' = [name |-> "history", id |-> id, given |-> None,
            result |-> get_conversation_history(conversations, id)]
  /\ UNCHANGED <<conversations, reqs, log>>
  /\ UNCHANGED graph_vars
  /\ UNCHANGED score_vars
  /\ UNCHANGED mode_vars

\* RAGService.get_service_stats
GetServiceStats ==
  /\ op' = [name |-> "stats", id |-> None, given |-> None,
            result |-> get_service_stats(conversations)]
  /\ UNCHANGED <<conversations, reqs, log>>
  /\ UNCHANGED graph_vars
  /\ UNCHANGED score_vars
  /\ UNCHANGED mode_vars

StoreNext ==
  \/ \E r \in Requests : TraditionalChat(r)
  \/ \E r \in Requests : TraditionalChatResume(r)
  \/ \E id \in ConvIds : ClearConversation(id)
  \/ \E id \in ConvIds : GetConversationHistory(id)
  \/ GetServiceStats

StoreSpec == StoreInit /\ [][StoreNext]_vars

(* ------------------------- relevance scores --------------------------- *)
\* numbers are fractions <<numerator, denominator>> with denominator > 0
Leq(a, b) == a[1] * b[2] <= b[1] * a[2]
Max(a, b) == IF Leq(a, b) THEN b ELSE a

\* search_similar_notes converting every distance as by 1 - distance
relevance_score_linear(n) == <<DistanceScale - n, DistanceScale>>

\* search_similar_notes handing the distance on as the score
relevance_score_raw_distance(n) == <<n, DistanceScale>>

\* search_similar_notes: the relevance_score of a result at distance
\* n / DistanceScale
relevance_score(n) ==
  LET converted == IF n <= DistanceScale                  \* distance <= 1.0
                   THEN Max(<<0, 1>>, <<DistanceScale - n, DistanceScale>>)
                   ELSE <<DistanceScale, DistanceScale + n>>
  IN IF 10 * n < DistanceScale                            \* distance < 0.1
     THEN Max(converted, <<9, 10>>)
     ELSE converted

\* _web_search: max(0.95 - (i * 0.15), 0.65)
base_score(i) == Max(<<95 - 15 * i, 100>>, <<65, 100>>)

\* _web_search: the relevance_score of the i-th web result, i from 0
web_relevance_score(i, provided) ==
  LET tavily_score == IF provided.kind = "absent" THEN base_score(i)
                      ELSE provided.value
  IN IF /\ provided.kind # "text"
        /\ Leq(<<0, 1>>, tavily_score)
        /\ Leq(tavily_score, <<1, 1>>)
     THEN tavily_score
     ELSE base_score(i)

\* a snippet is the number of leading characters taken from the text and
\* whether the marker "..." follows them
\* search_similar_notes: document[:200] + "..." if len(document) > 200
\* else document
note_content_snippet(n) ==
  IF n > snippet_limit THEN [taken |-> snippet_limit, marker |-> TRUE]
  ELSE [taken |-> n, marker |-> FALSE]

\* _web_search: content_snippet=result.get("content", "")
web_content_snippet(n) == [taken |-> n, marker |-> FALSE]

ScoreInit == StoreInit /\ conversations = <<>>

\* search_similar_notes scoring the results of one query; a behaviour
\* follows one query
SearchSimilarNotes ==
  /\ scored = NoScores
  /\ \E ds \in RankedDistances :
       \E texts \in [DOMAIN ds -> TextLengths] :
         scored' = [of |-> "notes", inputs |-> ds,
                    relevance_scores |->
                      [i \in DOMAIN ds |-> relevance_score(ds[i])],
                    texts |-> texts,
                    content_snippets |->
                      [i \in DOMAIN ds |-> note_content_snippet(texts[i])]]
  /\ UNCHANGED <<conversations, store_vars, graph_vars, mode_vars>>

\* _web_search scoring the results of one web search; a behaviour follows
\* one search
WebSearchScores ==
  /\ scored = NoScores
  /\ \E n \in 0..tavily_k :
       \E provided \in [1..n -> ProviderScores] :
         \E texts \in [1..n -> TextLengths] :
           scored' = [of |-> "web", inputs |-> provided,
                      relevance_scores |->
                        [i \in 1..n |->
                           web_relevance_score(i - 1, provided[i])],
                      texts |-> texts,
                      content_snippets |->
                        [i \in 1..n |-> web_content_snippet(texts[i])]]
  /\ UNCHANGED <<conversations, store_vars, graph_vars, mode_vars>>

ScoreNext ==
  \/ SearchSimilarNotes
  \/ WebSearchScores

ScoreSpec == ScoreInit /\ [][ScoreNext]_vars

(* ------------------------- mode configuration ------------------------- *)
\* str.lower() on the values of USE_LANGGRAPH explored
Lower(v) == IF v = "True" THEN "true" ELSE v

\* RAGService.__init__: self.use_langgraph from the argument and the
\* environment
configured_use_langgraph(arg, env) ==
  IF arg # None THEN arg = "True"
  ELSE Lower(IF env = None THEN "false" ELSE env) \in {"true", "1", "yes"}

\* the condition `self.use_langgraph and self.langgraph_service` under which
\* an operation is handed to the graph service and its store
Delegates(svc) == svc.use_langgraph /\ svc.langgraph_service

\* RAGService.chat
chat_route(svc) ==
  IF Delegates(svc) THEN "langgraph_service" ELSE "rag_service"

\* RAGService.get_conversation_history
get_conversation_history_route(svc) ==
  IF Delegates(svc) THEN "langgraph_service" ELSE "rag_service"

\* RAGService.clear_conversation
clear_conversation_route(svc) ==
  IF Delegates(svc) THEN "langgraph_service" ELSE "rag_service"

\* get_service_stats always counting the service's own store
get_service_stats_route_own(svc) == "rag_service"

\* RAGService.get_service_stats
get_service_stats_route(svc) ==
  IF Delegates(svc) THEN "langgraph_service" ELSE "rag_service"

\* the "service_type" in the statistics of each service
service_type(store) ==
  IF store = "langgraph_service" THEN "langgraph" ELSE "traditional"

ModeInit == StoreIdle /\ conversations = <<>> /\ service = NewService

\* RAGService(vector_store_service, use_langgraph=arg) with
\* USE_LANGGRAPH=env
Construct ==
  /\ service.stage = "new"
  /\ \E arg \in Arguments, env \in EnvValues :
       service' = [service EXCEPT
                     !.stage = "constructed", !.arg = arg, !.env = env,
                     !.requested = configured_use_langgraph(arg, env),
                     !.use_langgraph = configured_use_langgraph(arg, env)]
  /\ UNCHANGED <<conversations, store_vars, graph_vars, score_vars>>

\* RAGService.initialize
Initialize ==
  /\ service.stage = "constructed"
  /\ \E outcome \in GraphInitOutcomes, assigned \in BOOLEAN,
        llm_ok \in BOOLEAN :
       IF service.use_langgraph
       THEN CASE outcome = "ok" ->
                   /\ assigned
                   /\ llm_ok
                   /\ service' = [service EXCEPT
                                    !.stage = "initialized",
                                    !.langgraph_service = TRUE,
                                    !.import_outcome = outcome]
              [] outcome = "ImportError" ->
                   \* raised by the import (nothing assigned) or while the
                   \* graph service initialises (already assigned); the
                   \* traditional model is set up next
                   service' = [service EXCEPT
                                 !.stage = IF llm_ok THEN "initialized"
                                           ELSE "failed",
                                 !.use_langgraph = FALSE,
                                 !.langgraph_service = assigned,
                                 !.llm = llm_ok,
                                 !.import_outcome = outcome]
              [] outcome = "error" ->
                   /\ assigned
                   /\ llm_ok
                   /\ service' = [service EXCEPT
                                    !.stage = "failed",
                                    !.langgraph_service = TRUE,
                                    !.import_outcome = outcome]
       ELSE /\ outcome = "ok"
            /\ assigned
            /\ service' = [service EXCEPT
                             !.stage = IF llm_ok THEN "initialized"
                                       ELSE "failed",
                             !.llm = llm_ok]
  /\ UNCHANGED <<conversations, store_vars, graph_vars, score_vars>>

\* one of chat, get_conversation_history, clear_conversation and
\* get_service_stats on the initialised service: the store it is routed to
Serve ==
  /\ service.stage = "initialized"
  /\ Len(service.served) < MaxServed
  /\ \E operation \in Operations :
       LET store == CASE operation = "chat" -> chat_route(service)
                      [] operation = "history" ->
                           get_conversation_history_route(service)
                      [] operation = "clear" ->
                           clear_conversation_route(service)
                      [] operation = "stats" ->
                           get_service_stats_route(service)
       IN service' = [service EXCEPT !.served =
            Append(@, [operation |-> operation, store |-> store,
                       service_type |-> IF operation = "stats"
                                        THEN service_type(store)
                                        ELSE None])]
  /\ UNCHANGED <<conversations, store_vars, graph_vars, score_vars>>

ModeNext ==
  \/ Construct
  \/ Initialize
  \/ Serve

ModeSpec == ModeInit /\ [][ModeNext]_vars

(* ------------------------ helper definitions -------------------------- *)
Count(seq, x) == Cardinality({i \in DOMAIN seq : seq[i] = x})

Last(seq) == seq[Len(seq)]

Recorded == Len(trace) < MaxTrace   \* the whole run so far is in trace

\* the graders accepted the current generation: grounded, then useful
Accepted ==
  calls = <<[grader |-> "hallucination_grader", score |-> "yes"],
            [grader |-> "answer_grader", score |-> "yes"]>>

\* assistant messages the request appended, each with its conversation id
AppendedAnswers ==
  UNION {{<<id, conversations[id].messages[i]>> :
            i \in {j \in DOMAIN conversations[id].messages :
                     /\ conversations[id].messages[j].role = "assistant"
                     /\ conversations[id].messages[j] # EarlierExchange[2]}} :
         id \in DOMAIN conversations}

(* ------------------------------ claims -------------------------------- *)

\* C1: an answer is returned to the caller, and appended to the store, only
\* when the graders accepted the generation of the latest generate step
\* (groundedness yes, then usefulness yes): END is reached on no other
\* grading outcome, the response carries that generation, and the only
\* assistant message the request appends is that generation.
C1_OnlyAcceptedAnswerReturned ==
  /\ pc \in {"END", "returned"} =>
       Accepted /\ route = "useful" /\ generation \in Generations
  /\ response # NoResponse => pc = "returned" /\ response.response = generation
  /\ \A a \in AppendedAnswers :
       pc = "returned" /\ a[1] = conv_id /\ a[2].content = generation

\* C1 witness: an answer is returned and stored after an earlier generation
\* of the same run was rejected
C1_Witness ==
  /\ pc = "returned"
  /\ Len(routes) >= 2
  /\ routes[1] # "useful"
  /\ AppendedAnswers # {}
  /\ response # NoResponse

\* C2: every started run ends, either with a returned answer or with a
\* failure reported to the caller, whatever the graders answer.
C2_EveryRunEnds == (pc = "retrieve") ~> (pc \in {"returned", "failed"})

\* C3: when the generation is graded not grounded the next node is generate,
\* with the documents untouched, and that generate hands rag_chain the same
\* documents as the one before; a run whose first generation is graded not
\* grounded and whose second is accepted executes generate exactly twice,
\* with no search_web between the two.
C3_NotGroundedRegenerates ==
  /\ [][(pc = "decide_to_regenerate" /\ route' = "not grounded") =>
          (pc' = "generate" /\ documents' = documents)]_vars
  /\ [][(pc = "generate" /\ route = "not grounded") =>
          rag_chain_input' = rag_chain_input]_vars
  /\ [](pc = "END" /\ routes = <<"not grounded", "useful">> =>
          /\ Count(trace, "generate") = 2
          /\ trace[Len(trace) - 1] = "generate"
          /\ trace[Len(trace)] = "generate")

\* C3 witness: first generation not grounded, second accepted, over a
\* non-empty evidence set
C3_Witness ==
  /\ pc = "END"
  /\ routes = <<"not grounded", "useful">>
  /\ documents # <<>>
  /\ rag_chain_input = documents

\* C4: when the generation is graded grounded but not useful the next node
\* is search_web, and search_web is followed by exactly one generate before
\* the next grading, however many search_web steps the run already made.
C4_NotUsefulSearchesWeb ==
  /\ [][(pc = "decide_to_regenerate" /\ route' = "not useful") =>
          pc' = "search_web"]_vars
  /\ [][pc = "search_web" => pc' \in {"generate", "failed"}]_vars
  /\ [][(pc = "generate" /\ trace # <<>> /\ Last(trace) = "search_web") =>
          pc' \in {"decide_to_regenerate", "failed"}]_vars
  /\ [](pc = "END" /\ Recorded /\ Len(routes) >= 2
          /\ routes[Len(routes) - 1] = "not useful" =>
          /\ trace[Len(trace) - 2] = "generate"
          /\ trace[Len(trace) - 1] = "search_web"
          /\ trace[Len(trace)] = "generate")

\* C4 witness: a not-useful grading after the run had already searched the
\* web once, followed by search_web, one generate and acceptance
C4_Witness ==
  /\ pc = "END"
  /\ trace = <<"retrieve", "grade_documents", "search_web", "generate",
               "search_web", "generate">>
  /\ routes = <<"not useful", "useful">>

\* C5: after generate the hallucination grader is invoked first and the
\* answer grader only after it returned yes: the answer grader is never
\* called for a generation graded not grounded.
C5_UsefulnessOnlyAfterGrounded ==
  /\ [](\A i \in DOMAIN calls :
          calls[i].grader = "answer_grader" =>
            /\ i = 2
            /\ calls[1].grader = "hallucination_grader"
            /\ calls[1].score = "yes")
  /\ [][pc = "decide_to_regenerate" =>
          /\ calls' # <<>>
          /\ calls'[1].grader = "hallucination_grader"
          /\ calls'[1].score # "yes" => Len(calls') = 1
          /\ route' = "not grounded" => Len(calls') = 1]_vars

\* C5 witness: a generation graded not grounded
C5_Witness ==
  /\ pc = "generate"
  /\ route = "not grounded"
  /\ calls = <<[grader |-> "hallucination_grader", score |-> "no"]>>

\* C6: after grade_documents the next node is search_web exactly when some
\* retrieved document was graded not relevant; when all were graded relevant
\* or nothing was retrieved, the next node is generate.
C6_SearchIffSomeIrrelevant ==
  [][(pc = "grade_documents" /\ pc' # "failed") =>
       /\ pc' = "search_web" <=> \E i \in DOMAIN calls' : calls'[i].score # "yes"
       /\ pc' # "search_web" => pc' = "generate"
       /\ documents = <<>> => pc' = "generate"]_vars

\* C6 witness: only the last of three retrieved documents is graded not
\* relevant and the run goes to search_web
C6_Witness ==
  /\ pc = "search_web"
  /\ trace = <<"retrieve", "grade_documents">>
  /\ Len(calls) = 3
  /\ calls[1].score = "yes" /\ calls[2].score = "yes" /\ calls[3].score = "no"

\* C7: grade_documents invokes the retrieval grader exactly once per
\* retrieved document, in order; the documents afterwards are exactly those
\* graded yes, in their original order; web_search is "Yes" exactly when a
\* document was dropped.
C7_GradeDocumentsFilters ==
  [][(pc = "grade_documents" /\ pc' # "failed") =>
       /\ Len(calls') = Len(documents)
       /\ \A i \in DOMAIN documents :
            /\ calls'[i].grader = "retrieval_grader"
            /\ calls'[i].document = documents[i]
       /\ \E kept \in SUBSET DOMAIN documents :
            /\ kept = {i \in DOMAIN documents : calls'[i].score = "yes"}
            /\ Len(documents') = Cardinality(kept)
            /\ \A k \in DOMAIN documents' :
                 \E i \in kept :
                   /\ documents'[k] = documents[i]
                   /\ Cardinality({j \in kept : j <= i}) = k
       /\ web_search' = "Yes" <=> Len(documents') < Len(documents)
       /\ web_search' \in {"Yes", "No"}]_vars

\* C7 witness: the middle one of three retrieved documents was dropped
C7_Witness ==
  /\ pc = "search_web"
  /\ trace = <<"retrieve", "grade_documents">>
  /\ retrieved = Ranking
  /\ Len(calls) = 3
  /\ documents = <<Ranking[1], Ranking[3]>>
  /\ web_search = "Yes"

\* C8: the nodes a run executes are retrieve, grade_documents, then
\* generate steps each optionally preceded by one search_web; retrieve is
\* first and followed by grade_documents, every search_web is immediately
\* followed by generate, and the run ends (END) only after a generate.
C8_StepSequence ==
  /\ \A i \in DOMAIN trace :
       /\ i = 1 => trace[i] = "retrieve"
       /\ i = 2 => trace[i] = "grade_documents"
       /\ i >= 3 => trace[i] \in {"search_web", "generate"}
       /\ (trace[i] = "search_web" /\ i < Len(trace)) => trace[i + 1] = "generate"
  /\ pc \in {"retrieve_shutdown", "grade_documents"} => trace = <<"retrieve">>
  /\ (pc = "search_web" /\ trace # <<>> /\ Recorded) =>
       Last(trace) \in {"grade_documents", "generate"}
  /\ (pc = "generate" /\ Recorded) =>
       Last(trace) \in {"grade_documents", "search_web", "generate"}
  /\ (pc \in {"decide_to_regenerate", "END", "returned"} /\ Recorded) =>
       Last(trace) = "generate"
  /\ pc \in {"search_web", "generate", "decide_to_regenerate", "END",
             "returned"} => Len(trace) >= 2

\* C8 witness: a finished run with both kinds of repetition
C8_Witness ==
  /\ pc = "returned"
  /\ trace = <<"retrieve", "grade_documents", "search_web", "generate",
               "generate", "search_web", "generate">>

\* C9: with no web search tool configured, search_web raises nothing and
\* leaves the documents exactly as they were; the run continues to generate.
C9_UnconfiguredSearchPassesThrough ==
  [][(pc = "search_web" /\ ~web_search_tool) =>
       (pc' = "generate" /\ documents' = documents)]_vars

\* C9 witness: generate runs after a search_web without a tool, on the
\* documents that grade_documents retained
C9_Witness ==
  /\ ~web_search_tool
  /\ pc = "decide_to_regenerate"
  /\ trace = <<"retrieve", "grade_documents", "search_web", "generate">>
  /\ documents # <<>>
  /\ rag_chain_input = documents

\* C10: when the vector store call raises or times out, retrieve yields no
\* documents and the run goes on through grade_documents (which then calls
\* no grader) to generate; the request does not fail before generate.
C10_RetrievalFailureDegrades ==
  /\ [](retrieve_outcome \in {"error", "timeout"} =>
          /\ pc # "failed" \/ Count(trace, "generate") >= 1
          /\ pc = "grade_documents" => documents = <<>>
          /\ retrieved = <<>>)
  /\ [][(pc = "grade_documents" /\ retrieve_outcome \in {"error", "timeout"}) =>
          (pc' = "generate" /\ calls' = <<>> /\ documents' = <<>>)]_vars
  /\ [][pc = "retrieve_shutdown" => pc' = "grade_documents"]_vars

\* C10 witness: generate was reached after a failed retrieval
C10_Witness ==
  /\ retrieve_outcome \in {"error", "timeout"}
  /\ pc = "decide_to_regenerate"
  /\ trace = <<"retrieve", "grade_documents", "generate">>
  /\ rag_chain_input = <<>>

\* C11: when the retrieval grader, the hallucination grader, the answer
\* grader, rag_chain or the web search tool raises, the run stops at that
\* step and the request fails: no ChatResponse is built, no assistant message
\* is appended, and no further step is taken.
C11_FailureStopsWorkflow ==
  /\ [](raised # None => pc = "failed")
  /\ [](\A i \in DOMAIN calls :
          calls[i].score = "raise" =>
            pc = "failed" /\ i = Len(calls) /\ raised = calls[i].grader)
  /\ [](pc = "failed" => response = NoResponse /\ AppendedAnswers = {})
  /\ [][pc # "failed"]_vars

\* C11 witness: the answer grader raised after a regeneration
C11_Witness ==
  /\ pc = "failed"
  /\ raised = "answer_grader"
  /\ routes = <<"not grounded">>
  /\ generation \in Generations

\* C12: a chat request changes the conversation store only after its run
\* reached END: while the run is retrieving, grading, searching or
\* generating, and after it failed, the store is as it was before the
\* request (no conversation created, no user message appended).
C12_StoreUntouchedBeforeEnd ==
  pc \notin {"END", "returned"} => conversations \in InitialStores

(* ----------------- claims about the conversation store ---------------- *)
Min(a, b) == IF a <= b THEN a ELSE b

\* the retained messages of a conversation, empty for an unknown id
History(id) == get_conversation_history(conversations, id)

\* no traditional request is between its two appends
Quiescent == \A r \in Requests : reqs[r].pc \in {"idle", "returned"}

\* C13: the two messages of a request are appended as a pair: once every
\* request has returned, each user message of a conversation is immediately
\* followed by the assistant message of the same request, also when several
\* requests for the same conversation id ran concurrently.
C13_PairsAdjacent ==
  Quiescent =>
    \A id \in DOMAIN conversations :
      \A i \in DOMAIN History(id) :
        History(id)[i].role = "user" =>
          /\ i < Len(History(id))
          /\ History(id)[i + 1].role = "assistant"
          /\ History(id)[i + 1].content = History(id)[i].content

\* C14: after N appends to a conversation since it was created, it holds
\* exactly min(N, 2 * conversation_window) messages; no conversation ever
\* holds more than 2 * conversation_window messages.
C14_RetainedCount ==
  \A id \in DOMAIN conversations :
    /\ Len(History(id)) = Min(Len(log[id]), 2 * conversation_window)
    /\ Len(History(id)) <= 2 * conversation_window

\* C14 witness: a conversation that received more than
\* 2 * conversation_window appends
C14_Witness ==
  \E id \in DOMAIN conversations :
    /\ Len(log[id]) > 2 * conversation_window
    /\ Len(History(id)) = 2 * conversation_window

\* C15: the history of a conversation is exactly the most recently appended
\* min(N, 2 * conversation_window) messages in the order they were appended,
\* and so is what get_conversation_history returns; an append never brings
\* back or reorders a message: the messages kept from before the append are
\* a suffix of the old history, followed by the new message.
C15_NewestKeptInOrder ==
  /\ [](\A id \in ConvIds :
          \A i \in DOMAIN History(id) :
            History(id)[i] = log[id][Len(log[id]) - Len(History(id)) + i])
  /\ [](op.name = "history" =>
          /\ Len(op.result) = Min(Len(log[op.id]), 2 * conversation_window)
          /\ \A i \in DOMAIN op.result :
               op.result[i] = log[op.id][Len(log[op.id]) - Len(op.result) + i])
  /\ [][\A id \in DOMAIN conversations \cap DOMAIN conversations' :
          LET old == conversations[id].messages
              new == conversations'[id].messages
          IN new # old =>
               /\ Len(new) >= 1
               /\ \A i \in 1..(Len(new) - 1) :
                    new[i] = old[Len(old) + 1 - Len(new) + i]]_vars

\* C15 witness: history returned after the oldest message was dropped
C15_Witness ==
  /\ op.name = "history"
  /\ Len(log[op.id]) > 2 * conversation_window
  /\ op.result # <<>>
  /\ op.result[1] = log[op.id][Len(log[op.id]) - 2 * conversation_window + 1]
  /\ op.result[1] # log[op.id][1]

\* C16: the context of a conversation has at most conversation_window
\* messages, and they are the last min(len(history), conversation_window)
\* messages of the history in the same order (user as human, assistant as
\* ai); it is empty for an unknown id. The messages a request sends to the
\* model are that context followed by the request's own message.
C16_ContextIsRecentWindow ==
  /\ \A id \in ConvIds :
       LET context == get_conversation_context(conversations, id)
           skipped == Len(History(id)) - Len(context)
       IN /\ Len(context) = Min(Len(History(id)), conversation_window)
          /\ id \notin DOMAIN conversations => context = <<>>
          /\ \A i \in DOMAIN context :
               /\ context[i].content = History(id)[skipped + i].content
               /\ context[i].type = "human" <=>
                    History(id)[skipped + i].role = "user"
               /\ context[i].type = "ai" <=>
                    History(id)[skipped + i].role = "assistant"
  /\ \A r \in Requests :
       reqs[r].pc = "awaiting_llm" =>
         /\ Len(reqs[r].llm_messages) <= conversation_window + 1
         /\ reqs[r].llm_messages[Len(reqs[r].llm_messages)] =
              [type |-> "human", content |-> r]

\* C16 witness: a request read the context of a conversation holding more
\* than conversation_window messages, and the context starts after the
\* oldest ones
C16_Witness ==
  \E r \in Requests :
    /\ reqs[r].pc = "awaiting_llm"
    /\ reqs[r].conv_id \in DOMAIN conversations
    /\ Len(reqs[r].llm_messages) = conversation_window + 1
    /\ Len(History(reqs[r].conv_id)) > conversation_window
    /\ reqs[r].llm_messages[1].content # History(reqs[r].conv_id)[1].content

\* C17: appending to, reading the history of, or clearing a conversation id
\* that is not in the store raises nothing and leaves the store as it is:
\* the append adds no message and creates no conversation, the history is
\* empty, the clear does nothing. A conversation id enters the store only in
\* the chat step that calls _get_or_create_conversation.
C17_UnknownIdIsNoOp ==
  /\ [](\A id \in ConvIds \ DOMAIN conversations :
          /\ \A role \in {"user", "assistant"}, r \in Requests :
               add_message_to_conversation(conversations, id, role, r, <<>>)
                 = conversations
          /\ get_conversation_history(conversations, id) = <<>>
          /\ clear_conversation(conversations, id) = conversations)
  /\ [][(op'.name = "chat_return" /\ op'.id \notin DOMAIN conversations) =>
          /\ conversations' = conversations
          /\ \E r \in Requests :
               reqs[r].pc = "awaiting_llm" /\ reqs'[r].pc = "returned"]_vars
  /\ [][(op'.name \in {"clear", "history"}
           /\ op'.id \notin DOMAIN conversations) =>
          /\ conversations' = conversations
          /\ op'.result = <<>>]_vars
  /\ [][DOMAIN conversations' \ DOMAIN conversations # {} =>
          /\ op'.name = "chat"
          /\ DOMAIN conversations' = DOMAIN conversations \cup {op'.id}]_vars

\* C17 witness: a request appended its assistant message after its
\* conversation had been cleared, and returned
C17_Witness ==
  /\ op.name = "chat_return"
  /\ op.id \notin DOMAIN conversations
  /\ \E r \in Requests : reqs[r].pc = "returned" /\ reqs[r].conv_id = op.id

\* C18: clear_conversation removes the conversation and nothing else:
\* afterwards the history of the id is empty and the statistics count neither
\* the conversation nor its messages; clearing again changes nothing.
C18_ClearRemovesIdempotent ==
  /\ [](\A id \in ConvIds :
          LET cleared == clear_conversation(conversations, id)
          IN /\ DOMAIN cleared = DOMAIN conversations \ {id}
             /\ \A k \in DOMAIN cleared : cleared[k] = conversations[k]
             /\ get_conversation_history(cleared, id) = <<>>
             /\ get_service_stats(cleared).total_conversations =
                  Cardinality(DOMAIN conversations \ {id})
             /\ get_service_stats(cleared).total_messages =
                  get_service_stats(conversations).total_messages
                    - Len(History(id))
             /\ clear_conversation(cleared, id) = cleared)
  /\ [][op'.name = "clear" =>
          /\ op'.id \notin DOMAIN conversations'
          /\ DOMAIN conversations' = DOMAIN conversations \ {op'.id}
          /\ \A k \in DOMAIN conversations' :
               conversations'[k] = conversations[k]]_vars

\* C18 witness: the conversation of a request in flight was cleared while
\* another conversation stayed in the store
C18_Witness ==
  /\ op.name = "clear"
  /\ op.id \notin DOMAIN conversations
  /\ conversations # <<>>
  /\ \E r \in Requests :
       reqs[r].pc = "awaiting_llm" /\ reqs[r].conv_id = op.id

\* C19 as stated: a chat request given a conversation id uses that id: the
\* conversation it gets or creates is stored under the id it was given.
C19_GivenIdIsUsed ==
  [][(op'.name = "chat" /\ op'.given # None) =>
       (op'.id = op'.given /\ op'.given \in DOMAIN conversations')]_vars

\* C19: _get_or_create_conversation leaves the store unchanged for an id
\* already in it, and otherwise adds an empty conversation under the id and
\* changes no other conversation; a chat request given a non-empty id uses
\* that id, and when given none or the empty string it uses an id that was
\* not in the store, under which an empty conversation is created before
\* the user message is appended.
C19_GetOrCreate ==
  /\ [](\A id \in ConvIds :
          LET created == get_or_create_conversation(conversations, id)
          IN /\ id \in DOMAIN conversations => created = conversations
             /\ id \notin DOMAIN conversations =>
                  /\ DOMAIN created = DOMAIN conversations \cup {id}
                  /\ created[id].messages = <<>>
                  /\ \A k \in DOMAIN conversations :
                       created[k] = conversations[k])
  /\ [][op'.name = "chat" =>
          /\ op'.given \notin {None, EmptyId} => op'.id = op'.given
          /\ op'.given \in {None, EmptyId} =>
               op'.id \in ConvIds \ DOMAIN conversations
          /\ op'.id \in DOMAIN conversations'
          /\ \E r \in Requests :
               /\ reqs[r].pc = "idle"
               /\ reqs'[r].pc # "idle"
               /\ reqs'[r].conv_id = op'.id
               /\ op'.id \notin DOMAIN conversations =>
                    conversations'[op'.id].messages =
                      <<ConversationMessage("user", r, <<>>)>>]_vars

\* C19 witness: a request with the empty string as conversation id got a
\* new conversation next to an existing one
C19_Witness ==
  /\ op.name = "chat"
  /\ op.given = EmptyId
  /\ DOMAIN conversations = ConvIds
  /\ Len(conversations[op.id].messages) = 1
  /\ \E k \in ConvIds \ {op.id} : Len(conversations[k].messages) > 1

\* C20: a chat request whose conversation id is already in the store, for
\* instance created a moment ago by a concurrent request that used the same
\* new id, does not replace the conversation: its user message is appended
\* after the messages already there, and none of them is lost except by the
\* truncation to 2 * conversation_window.
C20_SecondRequestKeepsConversation ==
  [][(op'.name = "chat" /\ op'.id \in DOMAIN conversations) =>
       LET old == conversations[op'.id].messages
           new == conversations'[op'.id].messages
       IN /\ Len(new) = Min(Len(old) + 1, 2 * conversation_window)
          /\ new[Len(new)].role = "user"
          /\ \A i \in 1..(Len(new) - 1) :
               new[i] = old[Len(old) + 1 - Len(new) + i]]_vars

\* C20 witness: two requests in flight on the same conversation id, which
\* neither found in the store before, and the conversation holds the user
\* messages of both
C20_Witness ==
  /\ reqs[1].pc = "awaiting_llm"
  /\ reqs[2].pc = "awaiting_llm"
  /\ reqs[1].conv_id = "c2"
  /\ reqs[2].conv_id = "c2"
  /\ DOMAIN conversations = {"c2"}
  /\ Len(conversations["c2"].messages) = 2
  /\ conversations["c2"].messages[1].content # conversations["c2"].messages[2].content

\* C21: a store operation on one conversation id (the get-or-create and
\* append of a chat step, the assistant append, a clear) neither adds,
\* removes nor changes any other conversation, however the requests for
\* different ids interleave.
C21_OtherConversationsUntouched ==
  /\ [](\A id \in ConvIds :
          \A k \in DOMAIN conversations \ {id} :
            /\ get_or_create_conversation(conversations, id)[k]
                 = conversations[k]
            /\ add_message_to_conversation(conversations, id, "user", 1, <<>>)[k]
                 = conversations[k]
            /\ k \in DOMAIN clear_conversation(conversations, id)
            /\ clear_conversation(conversations, id)[k] = conversations[k])
  /\ [][\A k \in ConvIds \ {op'.id} :
          /\ k \in DOMAIN conversations' <=> k \in DOMAIN conversations
          /\ k \in DOMAIN conversations =>
               conversations'[k] = conversations[k]]_vars

\* C21 witness: requests on two conversations interleaved; the one on c1
\* appended its answer while the one on c2 is in flight
C21_Witness ==
  /\ op.name = "chat_return"
  /\ op.id = "c1"
  /\ Len(History("c1")) = 2 * conversation_window
  /\ Len(History("c2")) = 1
  /\ \E r \in Requests :
       reqs[r].pc = "awaiting_llm" /\ reqs[r].conv_id = "c2"

\* C22: get_service_stats changes nothing and reports the store as it is:
\* total_conversations is the number of conversations and total_messages the
\* sum of the lengths of their retained histories.
C22_StatsConsistent ==
  /\ [](/\ get_service_stats(conversations).total_conversations =
             Cardinality({id \in ConvIds : id \in DOMAIN conversations})
        /\ get_service_stats(conversations).total_messages =
             Len(History("c1")) + Len(History("c2")))
  /\ [](op.name = "stats" =>
          /\ op.result.total_conversations =
               Cardinality({id \in ConvIds : id \in DOMAIN conversations})
          /\ op.result.total_messages =
               Len(History("c1")) + Len(History("c2")))
  /\ [][op'.name = "stats" =>
          conversations' = conversations /\ reqs' = reqs /\ log' = log]_vars

\* C22 witness: the statistics of a store with two conversations, a long
\* one and a new one
C22_Witness ==
  /\ op.name = "stats"
  /\ op.result.total_conversations = 2
  /\ op.result.total_messages = 2 * conversation_window + 1

\* C23: when a chat request returns, the history of its conversation ends
\* with the request's user message, carrying no sources, followed by the
\* assistant message with the returned answer.
C23_HistoryEndsWithExchange ==
  (op.name = "chat_return" /\ History(op.id) # <<>>) =>
    LET h == History(op.id)
    IN /\ Len(h) >= 2
       /\ h[Len(h)].role = "assistant"
       /\ h[Len(h) - 1].role = "user"
       /\ h[Len(h) - 1].content = h[Len(h)].content
       /\ h[Len(h) - 1].sources = <<>>

(* --------------------- claims about whole runs ------------------------ *)
\* position of a note in what retrieve returned
Position(x) == CHOOSE p \in DOMAIN retrieved : retrieved[p] = x

\* the run ended after its first generation was accepted
FirstAnswerAccepted == pc \in {"END", "returned"} /\ routes = <<"useful">>

\* C24: when every retrieved document is graded relevant and the first
\* generation is graded grounded and useful, the run executes retrieve,
\* grade_documents and generate once each and search_web never, and the
\* sources returned are the retrieved documents in their order.
C24_AllRelevantAccepted ==
  /\ [][(/\ pc = "grade_documents"
          /\ pc' # "failed"
          /\ \A i \in DOMAIN calls' : calls'[i].score = "yes") =>
          /\ pc' = "generate"
          /\ documents' = documents
          /\ web_search' = "No"]_vars
  /\ []((FirstAnswerAccepted /\ web_search = "No") =>
          /\ trace = <<"retrieve", "grade_documents", "generate">>
          /\ documents = retrieved
          /\ rag_chain_input = retrieved)
  /\ []((FirstAnswerAccepted /\ web_search = "No" /\ pc = "returned") =>
          /\ response.sources = retrieved
          /\ response.response = generation)

\* C24 witness: three documents retrieved, all graded relevant, the first
\* answer accepted and returned with three sources
C24_Witness ==
  /\ pc = "returned"
  /\ routes = <<"useful">>
  /\ web_search = "No"
  /\ retrieved = Ranking
  /\ Len(response.sources) = 3

\* C25: when a retrieved document is graded not relevant and the first
\* generation is accepted, search_web runs exactly once, after
\* grade_documents and before the only generate; the sources returned are
\* the documents graded relevant, in the order retrieve returned them,
\* followed by the web results, whose identifiers are negative.
C25_IrrelevantThenSearchOnce ==
  /\ [][(/\ pc = "grade_documents"
          /\ pc' # "failed"
          /\ \E i \in DOMAIN calls' : calls'[i].score # "yes") =>
          pc' = "search_web" /\ web_search' = "Yes"]_vars
  /\ [][(pc = "search_web" /\ pc' # "failed") =>
          /\ Len(documents') >= Len(documents)
          /\ \A i \in DOMAIN documents : documents'[i] = documents[i]
          /\ \A i \in (DOMAIN documents') \ (DOMAIN documents) :
               documents'[i] < 0]_vars
  /\ []((FirstAnswerAccepted /\ web_search = "Yes") =>
          /\ trace = <<"retrieve", "grade_documents", "search_web",
                       "generate">>
          /\ \E kept \in 0..Len(documents) :
               /\ kept < Len(retrieved)
               /\ \A i \in 1..kept :
                    \E p \in DOMAIN retrieved : retrieved[p] = documents[i]
               /\ \A i, j \in 1..kept :
                    i < j => Position(documents[i]) < Position(documents[j])
               /\ \A i \in (kept + 1)..Len(documents) : documents[i] < 0
          /\ pc = "returned" => response.sources = documents)

\* C25 witness: two of three retrieved documents graded not relevant, two
\* web results added, the first answer accepted and returned
C25_Witness ==
  /\ pc = "returned"
  /\ routes = <<"useful">>
  /\ retrieved = Ranking
  /\ response.sources = <<Ranking[2], -1, -2>>
  /\ trace = <<"retrieve", "grade_documents", "search_web", "generate">>

\* C26: within a run no two documents of the evidence set have the same
\* identifier, at every step, also after search_web ran more than once.
C26_IdentifiersDistinct ==
  \A i, j \in DOMAIN documents : i # j => documents[i] # documents[j]

\* C27: the i-th result of a web search, counting from 0, gets the
\* identifier -1 - i, which is negative, so it differs from the identifier
\* of every retrieved note, none of which is negative; every document of
\* the evidence set is a retrieved note or has a negative identifier.
C27_WebIdentifiersNegative ==
  /\ [][(pc = "search_web" /\ pc' # "failed") =>
          \A i \in (DOMAIN documents') \ (DOMAIN documents) :
            /\ documents'[i] = -1 - (i - Len(documents) - 1)
            /\ documents'[i] < 0
            /\ \A p \in DOMAIN retrieved :
                 retrieved[p] >= 0 /\ documents'[i] # retrieved[p]]_vars
  /\ [](\A i \in DOMAIN documents :
          \/ documents[i] < 0
          \/ \E p \in DOMAIN retrieved : retrieved[p] = documents[i])

\* C27 witness: a retained note followed by three web results
C27_Witness ==
  /\ pc = "generate"
  /\ documents = <<Ranking[1], -1, -2, -3>>

\* the node that follows a step, as a function of the node that took the
\* step and of what the collaborators returned to it
NodeAfter ==
  CASE pc = "idle" -> "retrieve"
    [] pc = "retrieve" ->
         IF retrieve_outcome' = "timeout" THEN "retrieve_shutdown"
         ELSE "grade_documents"
    [] pc = "retrieve_shutdown" -> "grade_documents"
    [] pc = "grade_documents" ->
         IF \E i \in DOMAIN calls' : calls'[i].score = "raise" THEN "failed"
         ELSE IF \E i \in DOMAIN calls' : calls'[i].score # "yes"
         THEN "search_web"
         ELSE "generate"
    [] pc = "search_web" ->
         IF raised' # None THEN "failed" ELSE "generate"
    [] pc = "generate" ->
         IF raised' # None THEN "failed" ELSE "decide_to_regenerate"
    [] pc = "decide_to_regenerate" ->
         IF \E i \in DOMAIN calls' : calls'[i].score = "raise" THEN "failed"
         ELSE IF calls'[1].score # "yes" THEN "generate"
         ELSE IF calls'[2].score = "yes" THEN "END"
         ELSE "search_web"
    [] pc = "END" -> "returned"

\* the documents after a step that did not fail, as a function of the
\* documents before it and of what the collaborators returned
DocumentsAfter ==
  CASE pc = "retrieve" ->
         IF retrieve_outcome' = "ok" THEN retrieved'
         ELSE IF retrieve_outcome' = "error" THEN <<>>
         ELSE documents
    [] pc = "retrieve_shutdown" -> <<>>
    [] pc = "grade_documents" ->
         LET kept == {i \in DOMAIN documents : calls'[i].score = "yes"}
         IN [k \in 1..Cardinality(kept) |->
               documents[CHOOSE i \in kept :
                           Cardinality({j \in kept : j <= i}) = k]]
    [] pc = "search_web" ->
         [i \in 1..Len(documents') |->
            IF i <= Len(documents) THEN documents[i]
            ELSE -1 - (i - Len(documents) - 1)]
    [] OTHER -> documents

C29_ScoreNonIncreasing ==
  scored.of = "notes" =>
    \A i, j \in DOMAIN scored.inputs :
      (0 <= scored.inputs[i] /\ scored.inputs[i] <= scored.inputs[j]) =>
        Leq(scored.relevance_scores[j], scored.relevance_scores[i])

\* C30: every relevance score lies in [0, 1]: that of a note at any
\* distance >= 0, and that of a web result, which is the score the search
\* provider gave when that is a number in [0, 1] and otherwise
\* max(0.95 - 0.15 i, 0.65) for the i-th result, i from 0.
C30_ScoresInUnitInterval ==
  /\ scored.of = "notes" =>
       \A i \in DOMAIN scored.inputs :
         scored.inputs[i] >= 0 =>
           /\ scored.relevance_scores[i][1] >= 0
           /\ scored.relevance_scores[i][1] <= scored.relevance_scores[i][2]
  /\ scored.of = "web" =>
       \A i \in DOMAIN scored.inputs :
         LET given == scored.inputs[i]
             score == scored.relevance_scores[i]
             rank == IF 95 - 15 * (i - 1) >= 65 THEN 95 - 15 * (i - 1) ELSE 65
         IN /\ score[1] >= 0
            /\ score[1] <= score[2]
            /\ IF /\ given.kind = "number"
                  /\ given.value[1] >= 0
                  /\ given.value[1] <= given.value[2]
               THEN score = given.value
               ELSE score[1] * 100 = rank * score[2]

\* C30 witness: three web results scored, the first by the provider's
\* number, the second and the third by their rank because the provider's
\* score is out of range or missing
C30_Witness ==
  /\ scored.of = "web"
  /\ Len(scored.inputs) = 3
  /\ scored.inputs[1] = [kind |-> "number", value |-> <<1, 2>>]
  /\ scored.inputs[2] = [kind |-> "number", value |-> <<3, 2>>]
  /\ scored.inputs[3].kind = "absent"
  /\ scored.relevance_scores[1] = <<1, 2>>

\* the number of characters of a snippet
SnippetLength(snippet) ==
  snippet.taken + (IF snippet.marker THEN marker_length ELSE 0)

\* C31: a note whose distance d satisfies 0 <= d < 0.1 gets a relevance
\* score of at least 0.9; so does distance 0.
C31_NearMatchScoresHigh ==
  scored.of = "notes" =>
    \A i \in DOMAIN scored.inputs :
      (0 <= scored.inputs[i] /\ 10 * scored.inputs[i] < DistanceScale) =>
        Leq(<<9, 10>>, scored.relevance_scores[i])

\* C31 witness: a query whose results lie at distance 0 and at distance
\* 1 / DistanceScale, both below 0.1
C31_Witness ==
  /\ scored.of = "notes"
  /\ scored.inputs = <<0, 1>>
  /\ scored.relevance_scores[1] = <<DistanceScale, DistanceScale>>
  /\ Leq(<<9, 10>>, scored.relevance_scores[2])

\* C32: no scored note comes from a negative distance: the scorer rejects
\* such a distance instead of computing a score from it.
C32_NegativeDistanceRejected ==
  scored.of = "notes" =>
    \A i \in DOMAIN scored.inputs : scored.inputs[i] >= 0

\* C33: a chat request with an empty query is rejected before any
\* collaborator is called and before the session store is touched: no node
\* runs for it and no message with its content is stored.
C33_EmptyQueryRejected ==
  question = EmptyMessage =>
    /\ pc = "failed"
    /\ trace = <<>>
    /\ calls = <<>>
    /\ \A id \in DOMAIN conversations :
         \A i \in DOMAIN conversations[id].messages :
           conversations[id].messages[i].content # EmptyMessage

\* C34: every snippet, of a note or of a web result, holds at most the
\* first snippet_limit characters of its text, followed at most by the
\* marker.
C34_SnippetsBounded ==
  scored.of \in {"notes", "web"} =>
    \A i \in DOMAIN scored.content_snippets :
      /\ scored.content_snippets[i].taken <= snippet_limit
      /\ scored.content_snippets[i].taken <= scored.texts[i]
      /\ SnippetLength(scored.content_snippets[i])
           <= snippet_limit + marker_length

\* C39: a grade other than exactly "yes" counts as "no": a document whose
\* relevance grade is not "yes" is dropped and web_search is set; a
\* groundedness grade that is not "yes" leads to generate; a usefulness
\* grade that is not "yes" leads to search_web.
C39_OnlyYesCounts ==
  /\ [][(pc = "grade_documents" /\ pc' # "failed") =>
          \A i \in DOMAIN calls' :
            calls'[i].score # "yes" =>
              /\ \A j \in DOMAIN documents' :
                   documents'[j] # calls'[i].document
              /\ web_search' = "Yes"
              /\ pc' = "search_web"]_vars
  /\ [][(pc = "decide_to_regenerate" /\ pc' # "failed") =>
          /\ calls'[1].score # "yes" => pc' = "generate"
          /\ (Len(calls') = 2 /\ calls'[2].score # "yes") =>
               pc' = "search_web"]_vars

\* C39 witness: the answer grader said neither "yes" nor "no" and the run
\* is back at search_web; web_search is set, so a document was dropped
C39_Witness ==
  /\ pc = "search_web"
  /\ route = "not useful"
  /\ Len(calls) = 2
  /\ calls[1].score = "yes"
  /\ calls[2].score = "unsure"
  /\ web_search = "Yes"

\* the store that serves chat in the mode the service is in
ServingStore ==
  IF service.use_langgraph THEN "langgraph_service" ELSE "rag_service"

ClearedSince(r) ==
  /\ reqs[r].pc = "awaiting_llm"
  /\ \A i \in DOMAIN log[reqs[r].conv_id] :
       log[reqs[r].conv_id][i] # ConversationMessage("user", r, <<>>)

Sequential(id) ==
  /\ Len(log[id]) % 2 = 0
  /\ \A i \in DOMAIN log[id] :
       IF i % 2 = 1
       THEN /\ log[id][i].role = "user"
            /\ log[id][i + 1].role = "assistant"
            /\ log[id][i + 1].content = log[id][i].content
       ELSE log[id][i].role = "assistant"

\* C37: when the requests of a conversation ran one at a time and each
\* succeeded, the history kept between requests has even length and
\* alternates user, assistant, starting with a user message, also once
\* truncation drops messages: it is the newest part of what was appended.
C37_SequentialHistoryAlternates ==
  \A id \in DOMAIN conversations :
    Sequential(id) =>
      LET h == get_conversation_history(conversations, id)
      IN /\ Len(h) % 2 = 0
         /\ \A i \in DOMAIN h :
              h[i].role = IF i % 2 = 1 THEN "user" ELSE "assistant"
         /\ h = LastN(log[id], conversation_window * 2)

\* C37 witness: two requests ran one after the other on a conversation that
\* held 18 messages; 22 were appended in all, 20 are kept, a user message
\* first
C37_Witness ==
  /\ Sequential("c1")
  /\ Quiescent
  /\ reqs[1].pc = "returned" /\ reqs[2].pc = "returned"
  /\ Len(log["c1"]) = 2 * conversation_window + 2
  /\ Len(History("c1")) = 2 * conversation_window
  /\ History("c1")[1].role = "user"
  /\ Last(History("c1")).role = "assistant"

\* C40: in traditional mode the user message is in the store when the
\* context is read: the messages passed to the model end with the current
\* user message twice, as the last entry of the context and as the final
\* human message, and before them come at most conversation_window - 1
\* messages, all from before the request.
C40_UserMessageTwice ==
  /\ [](\A r \in Requests :
          reqs[r].pc = "awaiting_llm" =>
            LET ms == reqs[r].llm_messages
                n == Len(ms)
            IN /\ n >= 2
               /\ ms[n] = [type |-> "human", content |-> r]
               /\ ms[n - 1] = [type |-> "human", content |-> r]
               /\ n - 2 <= conversation_window - 1
               /\ \A i \in 1..(n - 2) : ms[i].content # r)
  /\ [][\A r \in Requests :
          (reqs[r].pc = "idle" /\ reqs'[r].pc = "awaiting_llm") =>
            LET id == reqs'[r].conv_id
                ms == reqs'[r].llm_messages
            IN /\ Last(conversations'[id].messages)
                    = ConversationMessage("user", r, <<>>)
               /\ SubSeq(ms, 1, Len(ms) - 1)
                    = get_conversation_context(conversations', id)]_vars

\* C40 witness: a request on a conversation of 18 messages passes eleven
\* messages to the model: nine earlier ones and its own message twice
C40_Witness ==
  \E r \in Requests :
    /\ reqs[r].pc = "awaiting_llm"
    /\ Len(reqs[r].llm_messages) = conversation_window + 1
    /\ reqs[r].llm_messages[conversation_window + 1].content = r
    /\ reqs[r].llm_messages[conversation_window].content = r
    /\ \A i \in 1..(conversation_window - 1) :
         reqs[r].llm_messages[i].content <= 0

====
